---------------------------- MODULE Spec2Model ----------------------------
(***************************************************************************)
(* A model of the quality-and-validation pipeline of tts_letters:          *)
(*   - src/validate_audio_pronunciations.py (the pronunciation validator), *)
(*   - src/check_audio_quality.py (the signal quality checker).            *)
(*                                                                         *)
(* Strings are sequences of one-character strings, so that lower-casing,   *)
(* stripping, the regular expressions and Python's `in` are computed.      *)
(* Floats are fixed-point integers: seconds, confidences and scores are    *)
(* counted in thousandths (Thousandths), log probabilities in tenths.      *)
(* File-system writes are taken to succeed; what the decoder, the header   *)
(* reader and the transcription model return are inputs.                   *)
(***************************************************************************)
EXTENDS Integers, Sequences, FiniteSets, TLC

(***************************************************************************)
(* Bounds of the model.                                                    *)
(***************************************************************************)
\* longest raw transcript handed to matches_expected_letter on its own
MaxLen == 3
\* longest filename stem handed to extract_letter_from_filename on its own
MaxStemLen == 3
\* most segments the transcription model emits for one clip
MaxSegments == 2
\* most clips in one letter directory of the validator's tree
MaxFiles == 2
\* most clips under the quality checker's root
MaxClips == 2

\* the unit of the fixed-point floats: 1.0 is 1000
Thousandths == 1000

None == "None"

(***************************************************************************)
(* Characters and Python's string operations.                              *)
(***************************************************************************)
LowerCase ==
    <<"a","b","c","d","e","f","g","h","i","j","k","l","m",
      "n","o","p","q","r","s","t","u","v","w","x","y","z">>

UpperCase ==
    <<"A","B","C","D","E","F","G","H","I","J","K","L","M",
      "N","O","P","Q","R","S","T","U","V","W","X","Y","Z">>

Digits == {"0","1","2","3","4","5","6","7","8","9"}

Whitespace == {" ", "\t", "\n", "\r"}

Range(s) == { s[i] : i \in 1..Len(s) }

IsLower(c) == c \in Range(LowerCase)

IsUpper(c) == c \in Range(UpperCase)

\* the class \w of re: letters, digits and the underscore
IsWordChar(c) == IsLower(c) \/ IsUpper(c) \/ c \in Digits \/ c = "_"

\* the class \s of re
IsSpaceChar(c) == c \in Whitespace

IndexIn(c, s) == CHOOSE i \in 1..Len(s) : s[i] = c

\* str.lower() and str.upper() on one character
LowerChar(c) == IF IsUpper(c) THEN LowerCase[IndexIn(c, UpperCase)] ELSE c

UpperChar(c) == IF IsLower(c) THEN UpperCase[IndexIn(c, LowerCase)] ELSE c

Lower(s) == [ i \in 1..Len(s) |-> LowerChar(s[i]) ]

Upper(s) == [ i \in 1..Len(s) |-> UpperChar(s[i]) ]

RECURSIVE LStrip(_)
LStrip(s) ==
    IF s # <<>> /\ IsSpaceChar(Head(s)) THEN LStrip(Tail(s)) ELSE s

RECURSIVE RStrip(_)
RStrip(s) ==
    IF s # <<>> /\ IsSpaceChar(s[Len(s)])
    THEN RStrip(SubSeq(s, 1, Len(s) - 1))
    ELSE s

\* str.strip()
Strip(s) == RStrip(LStrip(s))

\* re.sub(r'[^\w\s]', '', s): every character that is neither \w nor \s goes
RECURSIVE SubNonWordNonSpace(_)
SubNonWordNonSpace(s) ==
    IF s = <<>> THEN <<>>
    ELSE IF IsWordChar(Head(s)) \/ IsSpaceChar(Head(s))
         THEN <<Head(s)>> \o SubNonWordNonSpace(Tail(s))
         ELSE SubNonWordNonSpace(Tail(s))

\* Python's `p in s` on strings, scanning the start positions left to right
RECURSIVE FindFrom(_, _, _)
FindFrom(p, s, i) ==
    IF i + Len(p) - 1 > Len(s) THEN FALSE
    ELSE IF SubSeq(s, i, i + Len(p) - 1) = p THEN TRUE
         ELSE FindFrom(p, s, i + 1)

StrIn(p, s) == FindFrom(p, s, 1)

\* " ".join(texts)
RECURSIVE Join(_)
Join(texts) ==
    IF texts = <<>> THEN <<>>
    ELSE IF Len(texts) = 1 THEN Head(texts)
         ELSE Head(texts) \o <<" ">> \o Join(Tail(texts))

\* every sequence over S of length at most n
SeqsUpTo(S, n) == UNION { [1..k -> S] : k \in 0..n }

(***************************************************************************)
(* AudioPronunciationValidator: the per-letter table and the matcher.      *)
(***************************************************************************)
Letters == Range(UpperCase)

letter_patterns ==
    "A" :> <<<<"a">>, <<"a","y">>, <<"e","h">>, <<"a","y","e">>>> @@
    "B" :> <<<<"b">>, <<"b","e">>, <<"b","e","e">>>> @@
    "C" :> <<<<"c">>, <<"s","e","e">>, <<"s","e","a">>>> @@
    "D" :> <<<<"d">>, <<"d","e">>, <<"d","e","e">>>> @@
    "E" :> <<<<"e">>, <<"e","e">>, <<"e","a">>>> @@
    "F" :> <<<<"f">>, <<"e","f">>, <<"e","f","f">>>> @@
    "G" :> <<<<"g">>, <<"g","e">>, <<"g","e","e">>, <<"j","e","e">>>> @@
    "H" :> <<<<"h">>, <<"a","y","c","h">>, <<"a","i","t","c","h">>, <<"a","c","h","e">>>> @@
    "I" :> <<<<"i">>, <<"e","y","e">>, <<"a","y","e">>>> @@
    "J" :> <<<<"j">>, <<"j","a","y">>, <<"j","e","y">>>> @@
    "K" :> <<<<"k">>, <<"k","a","y">>, <<"k","a","y","e">>>> @@
    "L" :> <<<<"l">>, <<"e","l">>, <<"e","l","l">>>> @@
    "M" :> <<<<"m">>, <<"e","m">>, <<"e","m","m">>>> @@
    "N" :> <<<<"n">>, <<"e","n">>, <<"e","n","n">>>> @@
    "O" :> <<<<"o">>, <<"o","h">>, <<"o","w","e">>>> @@
    "P" :> <<<<"p">>, <<"p","e">>, <<"p","e","e">>>> @@
    "Q" :> <<<<"q">>, <<"q","u","e">>, <<"q","u","e","u","e">>, <<"c","u","e">>>> @@
    "R" :> <<<<"r">>, <<"a","r">>, <<"a","r","r">>>> @@
    "S" :> <<<<"s">>, <<"e","s">>, <<"e","s","s">>>> @@
    "T" :> <<<<"t">>, <<"t","e">>, <<"t","e","e">>>> @@
    "U" :> <<<<"u">>, <<"y","o","u">>, <<"y","o","o">>>> @@
    "V" :> <<<<"v">>, <<"v","e">>, <<"v","e","e">>>> @@
    "W" :> <<<<"w">>, <<"d","o","u","b","l","e"," ","u">>, <<"d","o","u","b","l","e"," ","y","o","u">>, <<"d","u","b">>>> @@
    "X" :> <<<<"x">>, <<"e","x">>, <<"e","k","s">>>> @@
    "Y" :> <<<<"y">>, <<"w","h","y">>, <<"w","y">>>> @@
    "Z" :> <<<<"z">>, <<"z","e">>, <<"z","e","e">>, <<"z","e","d">>>>

\* self.letter_patterns.get(expected_letter, [expected_letter.lower()])
ValidPatterns(expected_letter) ==
    IF expected_letter \in DOMAIN letter_patterns
    THEN letter_patterns[expected_letter]
    ELSE << Lower(<<expected_letter>>) >>

\* transcribed_clean of matches_expected_letter
Normalize(transcribed) == SubNonWordNonSpace(Strip(Lower(transcribed)))

\* the loop testing only whether a pattern lies in the transcript
RECURSIVE AnyPatternInTranscript(_, _)
AnyPatternInTranscript(valid_patterns, transcribed_clean) ==
    IF valid_patterns = <<>> THEN FALSE
    ELSE IF StrIn(Head(valid_patterns), transcribed_clean) THEN TRUE
         ELSE AnyPatternInTranscript(Tail(valid_patterns), transcribed_clean)

\* the for loop over valid_patterns, returning at the first hit
RECURSIVE AnyPatternMatches(_, _)
AnyPatternMatches(valid_patterns, transcribed_clean) ==
    IF valid_patterns = <<>> THEN FALSE
    ELSE IF StrIn(Head(valid_patterns), transcribed_clean)
            \/ StrIn(transcribed_clean, Head(valid_patterns))
         THEN TRUE
         ELSE AnyPatternMatches(Tail(valid_patterns), transcribed_clean)

matches_expected_letter(transcribed, expected_letter) ==
    IF transcribed = <<>> THEN FALSE
    ELSE LET transcribed_clean == Normalize(transcribed)
             valid_patterns == ValidPatterns(expected_letter)
         IN  IF AnyPatternMatches(valid_patterns, transcribed_clean) THEN TRUE
             ELSE IF Len(transcribed_clean) = 1
                     /\ transcribed_clean = Lower(<<expected_letter>>)
                  THEN TRUE
                  ELSE FALSE

(***************************************************************************)
(* extract_letter_from_filename: re.search(r'_([a-z])$', stem.lower()).    *)
(* Without re.MULTILINE, $ matches at the end of the string and just       *)
(* before a newline that ends the string.                                  *)
(***************************************************************************)
DollarAt(s, j) == j = Len(s) + 1 \/ (j = Len(s) /\ s[j] = "\n")

\* the start positions of the search, left to right; the group or None
RECURSIVE SearchLetter(_, _)
SearchLetter(s, i) ==
    IF i > Len(s) THEN None
    ELSE IF s[i] = "_" /\ i + 1 <= Len(s) /\ IsLower(s[i + 1])
            /\ DollarAt(s, i + 2)
         THEN s[i + 1]
         ELSE SearchLetter(s, i + 1)

\* the search on the stem as it is, not lower-cased
extract_letter_case_sensitive(stem) ==
    LET match == SearchLetter(stem, 1)
    IN  IF match # None THEN UpperChar(match) ELSE None

\* stem is Path(filepath).stem: the name of the clip without its ".wav"
extract_letter_from_filename(stem) ==
    LET match == SearchLetter(Lower(stem), 1)
    IN  IF match # None THEN UpperChar(match) ELSE None

(***************************************************************************)
(* What one clip is to the validator: the letter directory it lies in, its *)
(* filename stem, what wave.open reads from its header, and what the       *)
(* transcription model does on it.                                         *)
(***************************************************************************)
\* segment.text as the model emits it, before segment.text.strip()
SegTexts ==
    { <<>>, <<" ","B","e","e",".">>, <<"a">>, <<"!">> }

\* segment.avg_logprob in tenths: -6.0, -1.0 and 0.5
LogProbTenths == { -60, -10, 5 }

SegmentT == [ text : SegTexts, avg_logprob : LogProbTenths ]

\* self.model.transcribe(...) and the iteration of its segments: an
\* exception anywhere in the try block, or the segments
AsrOutcomes ==
    { [ raises |-> TRUE, segments |-> <<>> ] }
      \cup [ raises : {FALSE}, segments : SeqsUpTo(SegmentT, MaxSegments) ]

\* wave.open, getnframes and getframerate: an exception (an unreadable
\* header, a frame rate of 0) or the two numbers
Headers ==
    { [ raises |-> TRUE, frames |-> 0, rate |-> 1 ],
      [ raises |-> FALSE, frames |-> 22050, rate |-> 22050 ],
      [ raises |-> FALSE, frames |-> 11025, rate |-> 22050 ] }

Clamp(lo, hi, x) == IF x < lo THEN lo ELSE IF x > hi THEN hi ELSE x

RECURSIVE Sum(_)
Sum(s) == IF s = <<>> THEN 0 ELSE Head(s) + Sum(Tail(s))

\* round(frames / float(rate), 3), in thousandths of a second; 0.0 when
\* the header cannot be read
get_audio_duration(header) ==
    IF header.raises THEN 0
    ELSE (2 * Thousandths * header.frames + header.rate)
            \div (2 * header.rate)

\* " ".join(texts).strip() without the final strip
JoinTextsUnstripped(texts) == Join(texts)

\* " ".join(texts).strip()
JoinTexts(texts) == Strip(Join(texts))

\* (transcribed_text, confidence, duration); confidence in thousandths:
\* min(1.0, max(0.0, (avg_confidence + 5) / 5))
transcribe_audio(f) ==
    LET duration == get_audio_duration(f.header)
    IN  IF f.asr.raises
        THEN [ text |-> <<>>, confidence |-> 0, duration |-> duration ]
        ELSE
          LET segments == f.asr.segments
              texts == [ i \in 1..Len(segments) |-> Strip(segments[i].text) ]
              confidences ==
                  [ i \in 1..Len(segments) |-> segments[i].avg_logprob ]
              n == Len(confidences)
              transcribed_text == JoinTexts(texts)
              \* avg_confidence is Sum(confidences) / n tenths, or 0.0
              confidence ==
                  IF n = 0 THEN Clamp(0, Thousandths, Thousandths)
                  ELSE Clamp(0, Thousandths,
                             (Sum(confidences) * (Thousandths \div 10)
                                + 5 * Thousandths * n) \div (5 * n))
          IN  [ text |-> transcribed_text, confidence |-> confidence,
                duration |-> duration ]

\* str(wav_file): the letter directory and the stem
PathOf(f) == << f.dir, f.stem >>

\* the ValidationResult of a clip whose name gives no letter (relative_path,
\* which is file_path under another root, is left out of the records)
InvalidFilenameResult(f) ==
    [ file_path |-> PathOf(f),
      expected_letter |-> "UNKNOWN",
      transcribed_text |-> <<>>,
      is_match |-> FALSE,
      confidence |-> 0,
      audio_duration_seconds |-> 0,
      error_type |-> "invalid_filename",
      validation_score |-> 0 ]

\* the ValidationResult of a clip with no transcript, the duration read
\* from the header left out
TranscriptionFailedWithoutDuration(f, expected_letter, duration) ==
    [ file_path |-> PathOf(f),
      expected_letter |-> expected_letter,
      transcribed_text |-> <<>>,
      is_match |-> FALSE,
      confidence |-> 0,
      audio_duration_seconds |-> 0,
      error_type |-> "transcription_failed",
      validation_score |-> 0 ]

\* the ValidationResult of a clip with no transcript
TranscriptionFailedResult(f, expected_letter, duration) ==
    [ file_path |-> PathOf(f),
      expected_letter |-> expected_letter,
      transcribed_text |-> <<>>,
      is_match |-> FALSE,
      confidence |-> 0,
      audio_duration_seconds |-> duration,
      error_type |-> "transcription_failed",
      validation_score |-> 0 ]

\* validation_score with the factor 100 forgotten
ValidationScoreUnscaled(is_match, confidence) ==
    IF is_match THEN 100 * Thousandths ELSE confidence

\* 100.0 if is_match else confidence * 100.0, in thousandths
ValidationScore(is_match, confidence) ==
    IF is_match THEN 100 * Thousandths ELSE confidence * 100

\* the ValidationResult of a clip whose transcript was checked
CheckedResult(f, expected_letter, t) ==
    LET is_match == matches_expected_letter(t.text, expected_letter)
        error_type == IF is_match THEN None ELSE "pronunciation_mismatch"
    IN  [ file_path |-> PathOf(f),
          expected_letter |-> expected_letter,
          transcribed_text |-> t.text,
          is_match |-> is_match,
          confidence |-> t.confidence,
          audio_duration_seconds |-> t.duration,
          error_type |-> error_type,
          validation_score |-> ValidationScore(is_match, t.confidence) ]

\* validate_file transcribing before it looks at the name
validate_file_transcribing_first(f) ==
    LET t == transcribe_audio(f)
        expected_letter == extract_letter_from_filename(f.stem)
    IN  IF expected_letter = None
        THEN [ result |-> InvalidFilenameResult(f),
               calls |-> << "transcribe_audio",
                            "extract_letter_from_filename" >> ]
        ELSE IF t.text = <<>>
        THEN [ result |-> TranscriptionFailedResult(f, expected_letter,
                                                    t.duration),
               calls |-> << "transcribe_audio",
                            "extract_letter_from_filename" >> ]
        ELSE [ result |-> CheckedResult(f, expected_letter, t),
               calls |-> << "transcribe_audio",
                            "extract_letter_from_filename",
                            "matches_expected_letter" >> ]

\* validate_file: the ValidationResult it returns and, in calls, the
\* methods it called on the way
validate_file(f) ==
    LET expected_letter == extract_letter_from_filename(f.stem)
    IN  IF expected_letter = None
        THEN [ result |-> InvalidFilenameResult(f),
               calls |-> << "extract_letter_from_filename" >> ]
        ELSE
          LET t == transcribe_audio(f)
          IN  IF t.text = <<>>
              THEN [ result |-> TranscriptionFailedResult(f, expected_letter,
                                                          t.duration),
                     calls |-> << "extract_letter_from_filename",
                                  "transcribe_audio" >> ]
              ELSE [ result |-> CheckedResult(f, expected_letter, t),
                     calls |-> << "extract_letter_from_filename",
                                  "transcribe_audio",
                                  "matches_expected_letter" >> ]

(***************************************************************************)
(* The state.  One behaviour runs one program (prog): the validator's      *)
(* command line, the quality checker's command line, or one call of one    *)
(* function on its own (probe).                                            *)
(***************************************************************************)
VARIABLES
    prog,               \* "validator", "quality" or "probe"
    pc,                 \* where the program stands
    exit_code,          \* the process exit status; -1 while it runs
    report,             \* the JSON reports written: none, or the one
    args,               \* validator: args.max_files, args.sample_rate
    model,              \* validator: self.model
    fs,                 \* the directory tree as read: <<>> until it is
    letter,             \* validator: index in A..Z of the loop's letter
    wav_files,          \* validator: the files selected in that letter
    i,                  \* validator: how many of them are done
    stats,              \* validator: total/validated/matched/failed_files
    letter_stats,       \* validator: the defaultdict of per-letter counts
    validation_results, \* validator: self.validation_results
    working,            \* quality checker: self.working
    results,            \* quality checker: results of check_all_files
    issues_count,       \* quality checker: issues_count of check_all_files
    probe               \* the call made on its own: input, done, ret

vvars ==
    << args, model, letter, wav_files, i, stats, letter_stats,
       validation_results >>

qvars == << working, results, issues_count >>

vars == << prog, pc, exit_code, report, fs, vvars, qvars, probe >>

NoProbe == [ fn |-> None ]

ZeroStats ==
    [ total_files |-> 0, validated_files |-> 0,
      matched_files |-> 0, failed_files |-> 0 ]

ZeroLetterStats == [ total |-> 0, validated |-> 0, matched |-> 0, failed |-> 0 ]

\* the validator before main() runs
ValidatorIdle ==
    /\ args = <<>>
    /\ model = None
    /\ letter = 0
    /\ wav_files = <<>>
    /\ i = 0
    /\ stats = ZeroStats
    /\ letter_stats = <<>>
    /\ validation_results = <<>>

\* the quality checker before main() runs
QualityIdle ==
    /\ working = FALSE
    /\ results = <<>>
    /\ issues_count = <<>>

(***************************************************************************)
(* One call on its own: matches_expected_letter, validate_file.            *)
(***************************************************************************)
\* the characters of the raw transcripts tried
TranscriptChars == { "b", "e", "B", "1", "_", "!", " " }

\* the characters of the stems tried
StemChars == { "x", "a", "B", "_", "1", "\n" }

\* the stems of the clips whose transcription is tried in full
FileStems ==
    { <<"x","_","a">>, <<"x","_","B">>, <<"f","o","o","_","b","a","r">>,
      <<"a">> }

\* the transcriptions tried with every stem
StemAsr ==
    { a \in AsrOutcomes : a.raises \/ a.segments = <<>>
          \/ a.segments = << [ text |-> <<"a">>, avg_logprob |-> -10 ] >> }

ProbeIdle ==
    /\ prog = "probe"
    /\ pc = "call"
    /\ exit_code = -1
    /\ report = <<>>
    /\ fs = <<>>
    /\ ValidatorIdle
    /\ QualityIdle

InitMatch ==
    /\ ProbeIdle
    /\ \E t \in SeqsUpTo(TranscriptChars, MaxLen), l \in Letters :
         probe = [ fn |-> "matches_expected_letter", transcribed |-> t,
                   expected_letter |-> l, done |-> FALSE, ret |-> FALSE ]

InitExtract ==
    /\ ProbeIdle
    /\ \E s \in SeqsUpTo(StemChars, MaxStemLen), a \in StemAsr :
         probe = [ fn |-> "validate_file",
                   file |-> [ dir |-> "A", stem |-> s, asr |-> a,
                              header |-> CHOOSE h \in Headers : ~h.raises
                                                   /\ h.frames = h.rate ],
                   done |-> FALSE, ret |-> None ]

InitFile ==
    /\ ProbeIdle
    /\ \E s \in FileStems, a \in AsrOutcomes, h \in Headers :
         probe = [ fn |-> "validate_file",
                   file |-> [ dir |-> "A", stem |-> s, asr |-> a,
                              header |-> h ],
                   done |-> FALSE, ret |-> None ]

CallMatches ==
    /\ prog = "probe" /\ pc = "call"
    /\ probe.fn = "matches_expected_letter"
    /\ probe' = [ probe EXCEPT
                    !.done = TRUE,
                    !.ret = matches_expected_letter(probe.transcribed,
                                                    probe.expected_letter) ]
    /\ pc' = "returned"
    /\ UNCHANGED << prog, exit_code, report, fs, vvars, qvars >>

CallValidateFile ==
    /\ prog = "probe" /\ pc = "call"
    /\ probe.fn = "validate_file"
    /\ probe' = [ probe EXCEPT !.done = TRUE,
                               !.ret = validate_file(probe.file) ]
    /\ pc' = "returned"
    /\ UNCHANGED << prog, exit_code, report, fs, vvars, qvars >>

SpecMatch == InitMatch /\ [][CallMatches]_vars

SpecExtract == InitExtract /\ [][CallValidateFile]_vars

SpecFile == InitFile /\ [][CallValidateFile]_vars

(***************************************************************************)
(* The validator's command line: main, validate_directory and              *)
(* generate_report of validate_audio_pronunciations.py.                    *)
(***************************************************************************)
Max(a, b) == IF a >= b THEN a ELSE b

Min(a, b) == IF a <= b THEN a ELSE b

\* a / b rounded to the nearest integer, a >= 0 and b > 0
RoundDiv(a, b) == (2 * a + b) \div (2 * b)

IsInjective(s) == \A j, k \in 1..Len(s) : s[j] = s[k] => j = k

\* the letter directories that may exist under the output directory
DirLetters == { "A", "B" }

\* the stems of the clips that may lie in a letter directory
BatchStems ==
    { <<"x","_","a">>, <<"x","_","b">>, <<"f","o","o","_","b","a","r">> }

\* what the transcription model may do on a clip of the batch
BatchAsr ==
    { [ raises |-> TRUE, segments |-> <<>> ],
      [ raises |-> FALSE,
        segments |-> << [ text |-> <<"a">>, avg_logprob |-> -10 ] >> ],
      [ raises |-> FALSE,
        segments |-> << [ text |-> <<" ","B","e","e",".">>,
                          avg_logprob |-> -10 ] >> ] }

\* the header of a clip of the batch: one second of audio
BatchHeader == [ raises |-> FALSE, frames |-> 22050, rate |-> 22050 ]

\* list(letter_dir.glob("*.wav")): distinct names, in any order
DirContents ==
    { s \in SeqsUpTo(BatchStems, MaxFiles) : IsInjective(s) }

\* the output directory: missing, or its letter directories
ValidatorTrees ==
    { [ exists |-> FALSE, dirs |-> <<>> ] }
      \cup { [ exists |-> TRUE, dirs |-> d ] :
                d \in UNION { [ S -> DirContents ] : S \in SUBSET DirLetters } }

\* args.max_files (<<>> is None) and args.sample_rate in thousandths
ValidatorArgs ==
    [ max_files : { <<>>, <<0>>, <<1>> }, sample_rate : { 1000, 500, 0 } ]

InitValidator ==
    /\ prog = "validator"
    /\ pc = "main"
    /\ exit_code = -1
    /\ report = <<>>
    /\ fs = <<>>
    /\ args \in ValidatorArgs
    /\ model = None
    /\ letter = 0
    /\ wav_files = <<>>
    /\ i = 0
    /\ stats = ZeroStats
    /\ letter_stats = <<>>
    /\ validation_results = <<>>
    /\ QualityIdle
    /\ probe = NoProbe

\* main, lines 505-508: initialize_model() loads the model, or logs the
\* error and returns False, and main returns
InitializeModel ==
    /\ prog = "validator" /\ pc = "main"
    /\ \E loaded \in BOOLEAN :
         IF loaded
         THEN /\ model' = "loaded"
              /\ pc' = "validate_directory"
              /\ UNCHANGED exit_code
         ELSE /\ model' = "failed"
              /\ pc' = "exited"
              /\ exit_code' = 0
    /\ UNCHANGED << prog, report, fs, args, letter, wav_files, i, stats,
                    letter_stats, validation_results, qvars, probe >>

\* validate_directory, lines 287-312, and main, lines 517-519: a missing
\* output directory gives stats = {} and main returns
ValidateDirectory ==
    /\ prog = "validator" /\ pc = "validate_directory"
    /\ \E tree \in ValidatorTrees :
         /\ fs' = << tree >>
         /\ IF tree.exists
            THEN /\ pc' = "letter_loop"
                 /\ UNCHANGED exit_code
            ELSE /\ pc' = "exited"
                 /\ exit_code' = 0
    /\ letter' = 0
    /\ stats' = ZeroStats
    /\ letter_stats' = <<>>
    /\ UNCHANGED << prog, report, args, model, wav_files, i,
                    validation_results, qvars, probe >>

\* the next letter after index k whose directory exists, or 27
NextLetterDir(k) ==
    LET later == { j \in (k + 1)..26 : UpperCase[j] \in DOMAIN fs[1].dirs }
    IN  IF later = {} THEN 27
        ELSE CHOOSE j \in later : \A m \in later : j <= m

\* max(1, int(len(wav_files) * sample_rate))
SampleSize(n) == Max(1, (n * args.sample_rate) \div Thousandths)

\* random.sample(wav_files, sample_size): any sample_size of them, any order
Samples(files, sample_size) ==
    { s \in [ 1..sample_size -> Range(files) ] : IsInjective(s) }

\* wav_files[:max_files_per_letter] under `if max_files_per_letter:`
CutToMaxFiles(files) ==
    IF args.max_files # <<>> /\ args.max_files[1] # 0
    THEN SubSeq(files, 1, Min(args.max_files[1], Len(files)))
    ELSE files

WithLetter(ls, l, entry) ==
    [ k \in DOMAIN ls \cup {l} |-> IF k = l THEN entry ELSE ls[k] ]

\* lines 315-338: the next existing letter directory is listed, sampled
\* and cut
EnterLetter ==
    /\ prog = "validator" /\ pc = "letter_loop"
    /\ NextLetterDir(letter) <= 26
    /\ LET k == NextLetterDir(letter)
           found == fs[1].dirs[UpperCase[k]]
       IN  /\ args.sample_rate < Thousandths => SampleSize(Len(found)) <= Len(found)
           /\ \E sampled \in ( IF args.sample_rate < Thousandths
                                THEN Samples(found, SampleSize(Len(found)))
                                ELSE { found } ) :
                /\ wav_files' = CutToMaxFiles(sampled)
                /\ letter_stats' =
                     WithLetter(letter_stats, UpperCase[k],
                                [ ZeroLetterStats EXCEPT
                                    !.total = Len(CutToMaxFiles(sampled)) ])
           /\ stats' = [ stats EXCEPT !.total_files = @ + Len(found) ]
           /\ letter' = k
    /\ i' = 0
    /\ pc' = "file_loop"
    /\ UNCHANGED << prog, exit_code, report, fs, args, model,
                    validation_results, qvars, probe >>

\* line 328: random.sample raises ValueError when sample_size exceeds the
\* number of files; nothing catches it before the interpreter, which exits
\* with status 1
SampleLargerThanPopulation ==
    /\ prog = "validator" /\ pc = "letter_loop"
    /\ NextLetterDir(letter) <= 26
    /\ LET found == fs[1].dirs[UpperCase[NextLetterDir(letter)]]
       IN  /\ args.sample_rate < Thousandths
           /\ SampleSize(Len(found)) > Len(found)
           /\ stats' = [ stats EXCEPT !.total_files = @ + Len(found) ]
    /\ letter' = NextLetterDir(letter)
    /\ pc' = "exited"
    /\ exit_code' = 1
    /\ UNCHANGED << prog, report, fs, args, model, wav_files, i,
                    letter_stats, validation_results, qvars, probe >>

\* the loop over wav_files leaving out the clips whose name gives no letter
ValidateNextFileDroppingInvalid ==
    /\ prog = "validator" /\ pc = "file_loop"
    /\ i < Len(wav_files)
    /\ \E a \in BatchAsr :
         LET l == UpperCase[letter]
             f == [ dir |-> l, stem |-> wav_files[i + 1], asr |-> a,
                    header |-> BatchHeader ]
             result == validate_file(f).result
         IN  IF result.error_type = "invalid_filename"
             THEN UNCHANGED << validation_results, stats, letter_stats >>
             ELSE
               /\ validation_results' = Append(validation_results, result)
               /\ IF result.is_match
                  THEN /\ stats' = [ stats EXCEPT !.validated_files = @ + 1,
                                                  !.matched_files = @ + 1 ]
                       /\ letter_stats' =
                            [ letter_stats EXCEPT ![l].validated = @ + 1,
                                                  ![l].matched = @ + 1 ]
                  ELSE /\ stats' = [ stats EXCEPT !.validated_files = @ + 1,
                                                  !.failed_files = @ + 1 ]
                       /\ letter_stats' =
                            [ letter_stats EXCEPT ![l].validated = @ + 1,
                                                  ![l].failed = @ + 1 ]
    /\ i' = i + 1
    /\ UNCHANGED << prog, pc, exit_code, report, fs, args, model, letter,
                    wav_files, qvars, probe >>

\* the loop over wav_files with the two failed counters never incremented
ValidateNextFileCountingMatchesOnly ==
    /\ prog = "validator" /\ pc = "file_loop"
    /\ i < Len(wav_files)
    /\ \E a \in BatchAsr :
         LET l == UpperCase[letter]
             f == [ dir |-> l, stem |-> wav_files[i + 1], asr |-> a,
                    header |-> BatchHeader ]
             result == validate_file(f).result
         IN  /\ validation_results' = Append(validation_results, result)
             /\ IF result.is_match
                THEN /\ stats' = [ stats EXCEPT !.validated_files = @ + 1,
                                                !.matched_files = @ + 1 ]
                     /\ letter_stats' =
                          [ letter_stats EXCEPT ![l].validated = @ + 1,
                                                ![l].matched = @ + 1 ]
                ELSE /\ stats' = [ stats EXCEPT !.validated_files = @ + 1 ]
                     /\ letter_stats' =
                          [ letter_stats EXCEPT ![l].validated = @ + 1 ]
    /\ i' = i + 1
    /\ UNCHANGED << prog, pc, exit_code, report, fs, args, model, letter,
                    wav_files, qvars, probe >>

\* lines 340-362: one pass of the loop over wav_files
ValidateNextFile ==
    /\ prog = "validator" /\ pc = "file_loop"
    /\ i < Len(wav_files)
    /\ \E a \in BatchAsr :
         LET l == UpperCase[letter]
             f == [ dir |-> l, stem |-> wav_files[i + 1], asr |-> a,
                    header |-> BatchHeader ]
             result == validate_file(f).result
         IN  /\ validation_results' = Append(validation_results, result)
             /\ IF result.is_match
                THEN /\ stats' = [ stats EXCEPT !.validated_files = @ + 1,
                                                !.matched_files = @ + 1 ]
                     /\ letter_stats' =
                          [ letter_stats EXCEPT ![l].validated = @ + 1,
                                                ![l].matched = @ + 1 ]
                ELSE /\ stats' = [ stats EXCEPT !.validated_files = @ + 1,
                                                !.failed_files = @ + 1 ]
                     /\ letter_stats' =
                          [ letter_stats EXCEPT ![l].validated = @ + 1,
                                                ![l].failed = @ + 1 ]
    /\ i' = i + 1
    /\ UNCHANGED << prog, pc, exit_code, report, fs, args, model, letter,
                    wav_files, qvars, probe >>

\* lines 364-367: the letter is done
LeaveLetter ==
    /\ prog = "validator" /\ pc = "file_loop"
    /\ i = Len(wav_files)
    /\ pc' = "letter_loop"
    /\ UNCHANGED << prog, exit_code, report, fs, args, model, letter,
                    wav_files, i, stats, letter_stats, validation_results,
                    qvars, probe >>

\* lines 369-383: the loop over the letters is over and stats is returned
ReturnStats ==
    /\ prog = "validator" /\ pc = "letter_loop"
    /\ NextLetterDir(letter) > 26
    /\ letter' = 26
    /\ pc' = "generate_report"
    /\ UNCHANGED << prog, exit_code, report, fs, args, model, wav_files, i,
                    stats, letter_stats, validation_results, qvars, probe >>

AllScores == [ k \in 1..Len(validation_results) |->
                 validation_results[k].validation_score ]

AllDurations == [ k \in 1..Len(validation_results) |->
                    validation_results[k].audio_duration_seconds ]

NotMatch(r) == ~r.is_match

\* the report of generate_report, lines 388-420
ValidationReport ==
    [ summary |->
        [ total_files |-> stats.total_files,
          validated_files |-> stats.validated_files,
          matched_files |-> stats.matched_files,
          failed_files |-> stats.failed_files,
          match_rate |->
              IF stats.validated_files > 0
              THEN (stats.matched_files * 100 * Thousandths)
                      \div stats.validated_files
              ELSE 0,
          average_validation_score |->
              IF AllScores # <<>>
              THEN 10 * RoundDiv(Sum(AllScores), 10 * Len(AllScores))
              ELSE 0,
          average_audio_duration |->
              IF AllDurations # <<>>
              THEN RoundDiv(Sum(AllDurations), Len(AllDurations))
              ELSE 0,
          total_audio_duration |-> Sum(AllDurations) ],
      letter_breakdown |-> letter_stats,
      all_validations |-> validation_results,
      failed_validations |-> SelectSeq(validation_results, NotMatch) ]

\* main, lines 517-526: stats is not empty, the report is written and main
\* returns
GenerateReport ==
    /\ prog = "validator" /\ pc = "generate_report"
    /\ report' = Append(report, ValidationReport)
    /\ pc' = "exited"
    /\ exit_code' = 0
    /\ UNCHANGED << prog, fs, vvars, qvars, probe >>

\* the validator is running: main has not returned
ValidatorRunning ==
    pc \in { "main", "validate_directory", "letter_loop", "file_loop",
             "generate_report" }

\* a keyboard interrupt that leaves the report of the records made so far
KeyboardInterruptFlushingReport ==
    /\ prog = "validator" /\ ValidatorRunning
    /\ report' = Append(report, ValidationReport)
    /\ pc' = "interrupted"
    /\ exit_code' = 0
    /\ UNCHANGED << prog, fs, vvars, qvars, probe >>

\* lines 529-533: KeyboardInterrupt is no Exception, so no except clause
\* of the methods catches it; it leaves main, the __main__ block logs the
\* cancellation and the process ends with status 0, the report unwritten
KeyboardInterruptValidator ==
    /\ prog = "validator" /\ ValidatorRunning
    /\ pc' = "interrupted"
    /\ exit_code' = 0
    /\ UNCHANGED << prog, report, fs, vvars, qvars, probe >>

NextValidator ==
    \/ InitializeModel
    \/ ValidateDirectory
    \/ EnterLetter
    \/ SampleLargerThanPopulation
    \/ ValidateNextFile
    \/ LeaveLetter
    \/ ReturnStats
    \/ GenerateReport
    \/ KeyboardInterruptValidator

SpecValidator == InitValidator /\ [][NextValidator]_vars

(***************************************************************************)
(* One validator instance used by a caller that calls validate_directory   *)
(* more than once before generate_report.                                  *)
(***************************************************************************)
\* the most records of earlier calls a further call may start with
MaxCarried == 1

\* validate_directory is called again after it returned: its counters are
\* locals set to zero at lines 302-312, while self.validation_results is
\* set to [] at line 57 of __init__ only and keeps the earlier records
ValidateDirectoryAgain ==
    /\ prog = "validator" /\ pc = "generate_report"
    /\ Len(validation_results) <= MaxCarried
    /\ pc' = "validate_directory"
    /\ wav_files' = <<>>
    /\ i' = 0
    /\ UNCHANGED << prog, exit_code, report, fs, args, model, letter, stats,
                    letter_stats, validation_results, qvars, probe >>

NextInstance ==
    \/ NextValidator
    \/ ValidateDirectoryAgain

SpecInstance == InitValidator /\ [][NextInstance]_vars

(***************************************************************************)
(* The quality checker: check_audio_quality.py.  A clip is its path and    *)
(* what the decoder yields: an exception, or the signal, given by the      *)
(* numbers check_file takes from it (all in thousandths).                  *)
(***************************************************************************)
\* self.min_duration = 0.3
min_duration == 300
\* self.max_duration = 3.0
max_duration == 3000
\* self.min_rms = 0.01
min_rms == 10
\* self.clipping_threshold = 0.99
clipping_threshold == 990
\* self.silence_threshold = 0.001
silence_threshold == 1
\* self.silence_ratio_threshold = 0.7
silence_ratio_threshold == 700

Abs(x) == IF x < 0 THEN -x ELSE x

\* len(audio) / sr
ClipDurations == { 200, 299, 300, 1000, 3000, 3001, 12000 }

\* np.max(np.abs(audio))
ClipPeaks == { 0, 500, 989, 990, 999 }

\* np.sqrt(np.mean(audio**2))
ClipRms == { 0, 9, 10, 50 }

\* the fraction of the samples below silence_threshold
ClipSilenceRatios == { 20, 700, 701, 1000 }

\* the signals: the RMS of a signal is at most its peak, and every sample is
\* below silence_threshold exactly when the peak is
Signals ==
    { s \in [ duration : ClipDurations, rms : ClipRms, peak : ClipPeaks,
              silence_ratio : ClipSilenceRatios, sample_rate : { 22050 } ] :
        /\ s.rms <= s.peak
        /\ s.silence_ratio = Thousandths <=> s.peak < silence_threshold }

\* filename.split('_')
RECURSIVE Split(_, _)
Split(s, part) ==
    IF s = <<>> THEN << part >>
    ELSE IF Head(s) = "_" THEN << part >> \o Split(Tail(s), <<>>)
         ELSE Split(Tail(s), Append(part, Head(s)))

\* the issues list with the clipping tag for a peak above the threshold only
IssuesClippingAbove(signal) ==
    (IF signal.peak > clipping_threshold THEN << "clipping" >> ELSE <<>>)
    \o (IF signal.rms < min_rms THEN << "too_quiet" >> ELSE <<>>)
    \o (IF signal.duration < min_duration THEN << "too_short" >>
        ELSE IF signal.duration > max_duration THEN << "too_long" >>
        ELSE <<>>)
    \o (IF signal.silence_ratio > silence_ratio_threshold
        THEN << "mostly_silent" >> ELSE <<>>)

\* the issues list with the two duration bounds taken as too short and too
\* long themselves
IssuesInclusiveDuration(signal) ==
    (IF signal.peak >= clipping_threshold THEN << "clipping" >> ELSE <<>>)
    \o (IF signal.rms < min_rms THEN << "too_quiet" >> ELSE <<>>)
    \o (IF signal.duration <= min_duration THEN << "too_short" >>
        ELSE IF signal.duration >= max_duration THEN << "too_long" >>
        ELSE <<>>)
    \o (IF signal.silence_ratio > silence_ratio_threshold
        THEN << "mostly_silent" >> ELSE <<>>)

\* the issues list of check_file, lines 165-186
Issues(signal) ==
    (IF signal.peak >= clipping_threshold THEN << "clipping" >> ELSE <<>>)
    \o (IF signal.rms < min_rms THEN << "too_quiet" >> ELSE <<>>)
    \o (IF signal.duration < min_duration THEN << "too_short" >>
        ELSE IF signal.duration > max_duration THEN << "too_long" >>
        ELSE <<>>)
    \o (IF signal.silence_ratio > silence_ratio_threshold
        THEN << "mostly_silent" >> ELSE <<>>)

\* the score without max(0, min(100, ...))
QualityScoreUnclamped(issues, duration) ==
    100 * Thousandths - Len(issues) * 15 * Thousandths
        - Abs(duration - Thousandths) * 10

\* the score with the penalty on duration - 1.0 instead of its absolute
\* value
QualityScoreSignedDeviation(issues, duration) ==
    Max(0, Min(100 * Thousandths,
               100 * Thousandths - Len(issues) * 15 * Thousandths
                   - (duration - Thousandths) * 10))

\* the score with 15 points instead of 10 per second away from 1.0
QualityScoreSteeperDuration(issues, duration) ==
    Max(0, Min(100 * Thousandths,
               100 * Thousandths - Len(issues) * 15 * Thousandths
                   - Abs(duration - Thousandths) * 15))

\* lines 188-192, in thousandths of a point
QualityScore(issues, duration) ==
    Max(0, Min(100 * Thousandths,
               100 * Thousandths - Len(issues) * 15 * Thousandths
                   - Abs(duration - Thousandths) * 10))

\* check_file: <<>> for None, or the AudioQualityResult (relative_path,
\* channels and bit_depth, copied from the file's header, are left out)
check_file(clip) ==
    IF clip.decode_raises THEN <<>>
    ELSE
      LET parts == Split(clip.path[2], <<>>)
          signal == clip.signal
          issues == Issues(signal)
      IN  << [ file_path |-> clip.path,
               letter |-> Upper(parts[Len(parts)]),
               engine |-> parts[1],
               variant |-> IF Len(parts) > 1 THEN parts[2]
                           ELSE <<"u","n","k","n","o","w","n">>,
               duration_sec |-> signal.duration,
               sample_rate |-> signal.sample_rate,
               rms_level |-> signal.rms,
               peak_level |-> signal.peak,
               is_clipping |-> signal.peak >= clipping_threshold,
               is_too_quiet |-> signal.rms < min_rms,
               has_silence |->
                   signal.silence_ratio > silence_ratio_threshold,
               quality_score |->
                   10 * RoundDiv(QualityScore(issues, signal.duration), 10),
               issues |-> issues ] >>

\* the signals of the clips of a batch: scenario 1 of the specification
\* (clean), scenario 2 (clipped and short)
BatchSignals ==
    { [ duration |-> 1000, rms |-> 50, peak |-> 500, silence_ratio |-> 20,
        sample_rate |-> 22050 ],
      [ duration |-> 200, rms |-> 50, peak |-> 999, silence_ratio |-> 20,
        sample_rate |-> 22050 ] }

\* the paths under the root: letter directory and stem
ClipPaths == { "A", "B" } \X { <<"x","_","a">>, <<"g","t","t","s">> }

\* what a clip of the batch may be
BatchClips ==
    [ path : ClipPaths, decode_raises : { FALSE }, signal : BatchSignals ]
      \cup [ path : ClipPaths, decode_raises : { TRUE },
             signal : { CHOOSE s \in BatchSignals : s.duration = 1000 } ]

\* the root: missing, or the clips under it, no two at one path
QualityTrees ==
    { [ exists |-> FALSE, clips |-> {} ] }
      \cup { [ exists |-> TRUE, clips |-> c ] :
               c \in { d \in SUBSET BatchClips :
                         /\ Cardinality(d) <= MaxClips
                         /\ \A a, b \in d : a.path = b.path => a = b } }

\* the code points of the characters of the paths, in increasing order
CodePointOrder ==
    << "\n", " ", "!", ".", "0","1","2","3","4","5","6","7","8","9" >>
      \o UpperCase \o << "_" >> \o LowerCase

CodePointRank(c) == IndexIn(c, CodePointOrder)

\* a < b for two strings
RECURSIVE StrLess(_, _)
StrLess(a, b) ==
    IF b = <<>> THEN FALSE
    ELSE IF a = <<>> THEN TRUE
    ELSE IF Head(a) = Head(b) THEN StrLess(Tail(a), Tail(b))
    ELSE CodePointRank(Head(a)) < CodePointRank(Head(b))

\* the name of a clip
WavName(stem) == stem \o << ".", "w", "a", "v" >>

\* Path.__lt__: the parts are compared one after the other
PathLess(p, q) ==
    \/ StrLess(<< p[1] >>, << q[1] >>)
    \/ p[1] = q[1] /\ StrLess(WavName(p[2]), WavName(q[2]))

\* sorted(self.base_dir.rglob("*.wav"))
SortedClips(c) ==
    CHOOSE s \in [ 1..Cardinality(c) -> c ] :
      \A j, k \in 1..Cardinality(c) : j < k => PathLess(s[j].path, s[k].path)

\* the list left in the order it came in
NumbersAsGiven(xs) == xs

\* sorted(xs) for numbers
RECURSIVE SortedNumbers(_)
SortedNumbers(xs) ==
    IF xs = <<>> THEN <<>>
    ELSE LET least == CHOOSE j \in 1..Len(xs) : \A k \in 1..Len(xs) :
                          xs[j] <= xs[k]
         IN  << xs[least] >>
               \o SortedNumbers(SubSeq(xs, 1, least - 1)
                                  \o SubSeq(xs, least + 1, Len(xs)))

MinOf(xs) == SortedNumbers(xs)[1]

MaxOf(xs) == SortedNumbers(xs)[Len(xs)]

HasIssues(r) == r.issues # <<>>

\* _generate_summary: <<>> for {}, or the summary
generate_summary(rs, counts) ==
    IF rs = <<>> THEN <<>>
    ELSE
      LET durations == [ k \in 1..Len(rs) |-> rs[k].duration_sec ]
          rms_levels == [ k \in 1..Len(rs) |-> rs[k].rms_level ]
          quality_scores == [ k \in 1..Len(rs) |-> rs[k].quality_score ]
          files_with_issues == Len(SelectSeq(rs, HasIssues))
          clean_files == Len(rs) - files_with_issues
      IN  << [ total_files |-> Len(rs),
               clean_files |-> clean_files,
               files_with_issues |-> files_with_issues,
               quality_rate |->
                   10 * RoundDiv(100 * Thousandths * clean_files,
                                 10 * Len(rs)),
               average_quality_score |->
                   10 * RoundDiv(Sum(quality_scores), 10 * Len(rs)),
               duration |->
                   [ min |-> MinOf(durations),
                     max |-> MaxOf(durations),
                     avg |-> RoundDiv(Sum(durations), Len(durations)),
                     median |->
                         SortedNumbers(durations)[Len(durations) \div 2 + 1] ],
               rms_level |->
                   [ min |-> MinOf(rms_levels),
                     max |-> MaxOf(rms_levels),
                     avg |-> RoundDiv(Sum(rms_levels), Len(rms_levels)) ],
               sample_rates |-> { rs[k].sample_rate : k \in 1..Len(rs) },
               issues_found |-> DOMAIN counts # {} ] >>

InitQuality ==
    /\ prog = "quality"
    /\ pc = "main"
    /\ exit_code = -1
    /\ report = <<>>
    /\ fs = <<>>
    /\ ValidatorIdle
    /\ QualityIdle
    /\ probe = NoProbe

\* main, lines 285-288, and __init__, lines 66-77: the libraries import,
\* or working is False and main exits with 1
ConstructChecker ==
    /\ prog = "quality" /\ pc = "main"
    /\ \E imported \in BOOLEAN :
         /\ working' = imported
         /\ IF imported
            THEN pc' = "check_all_files" /\ UNCHANGED exit_code
            ELSE pc' = "exited" /\ exit_code' = 1
    /\ UNCHANGED << prog, report, fs, vvars, results, issues_count, probe >>

\* check_all_files, lines 82-106, and main, lines 292-297: without the
\* libraries, without the root or without clips it returns {}, and main
\* exits with 0
FindWavFiles ==
    /\ prog = "quality" /\ pc = "check_all_files"
    /\ \E tree \in QualityTrees :
         /\ fs' = << tree >>
         /\ IF ~working \/ ~tree.exists \/ tree.clips = {}
            THEN /\ pc' = "exited"
                 /\ exit_code' = 0
                 /\ UNCHANGED wav_files
            ELSE /\ pc' = "file_loop"
                 /\ wav_files' = SortedClips(tree.clips)
                 /\ UNCHANGED exit_code
    /\ i' = 0
    /\ results' = <<>>
    /\ issues_count' = <<>>
    /\ UNCHANGED << prog, report, args, model, letter, stats, letter_stats,
                    validation_results, working, probe >>

\* issues_count counting the first issue of a list only
CountFirstIssueOnly(counts, issues) ==
    IF issues = <<>> THEN counts
    ELSE [ k \in DOMAIN counts \cup { Head(issues) } |->
             IF k = Head(issues)
             THEN (IF k \in DOMAIN counts THEN counts[k] ELSE 0) + 1
             ELSE counts[k] ]

\* issues_count[issue] += 1 for every issue of the list
RECURSIVE CountIssues(_, _)
CountIssues(counts, issues) ==
    IF issues = <<>> THEN counts
    ELSE CountIssues(
           [ k \in DOMAIN counts \cup { Head(issues) } |->
               IF k = Head(issues)
               THEN (IF k \in DOMAIN counts THEN counts[k] ELSE 0) + 1
               ELSE counts[k] ],
           Tail(issues))

\* the loop over wav_files ending at the first clip that yields None
CheckNextFileStoppingAtNull ==
    /\ prog = "quality" /\ pc = "file_loop"
    /\ i < Len(wav_files)
    /\ LET result == check_file(wav_files[i + 1])
       IN  IF result # <<>>
           THEN /\ results' = Append(results, result[1])
                /\ issues_count' = CountIssues(issues_count, result[1].issues)
                /\ i' = i + 1
           ELSE /\ UNCHANGED << results, issues_count >>
                /\ i' = Len(wav_files)
    /\ UNCHANGED << prog, pc, exit_code, report, fs, args, model, letter,
                    wav_files, stats, letter_stats, validation_results,
                    working, probe >>

\* lines 108-118: one pass of the loop over wav_files
CheckNextFile ==
    /\ prog = "quality" /\ pc = "file_loop"
    /\ i < Len(wav_files)
    /\ LET result == check_file(wav_files[i + 1])
       IN  IF result # <<>>
           THEN /\ results' = Append(results, result[1])
                /\ issues_count' = CountIssues(issues_count, result[1].issues)
           ELSE UNCHANGED << results, issues_count >>
    /\ i' = i + 1
    /\ UNCHANGED << prog, pc, exit_code, report, fs, args, model, letter,
                    wav_files, stats, letter_stats, validation_results,
                    working, probe >>

\* the report of check_all_files, lines 120-128
QualityReport ==
    [ summary |-> generate_summary(results, issues_count),
      all_results |-> results,
      issues_by_type |-> issues_count ]

\* the test of main reduced to the summary being there
ReportsAnything(rep) == rep.summary # <<>>

\* report.get("summary", {}).get("issues_found") of main, line 292
ReportsIssues(rep) == rep.summary # <<>> /\ rep.summary[1].issues_found

\* lines 120-136 and main, lines 292-297: the report is written, and main
\* exits with 1 when the summary says issues_found, with 0 otherwise
WriteQualityReport ==
    /\ prog = "quality" /\ pc = "file_loop"
    /\ i = Len(wav_files)
    /\ report' = Append(report, QualityReport)
    /\ pc' = "exited"
    /\ exit_code' = IF ReportsIssues(QualityReport) THEN 1 ELSE 0
    /\ UNCHANGED << prog, fs, vvars, qvars, probe >>

\* the statuses of an interpreter ended by an uncaught KeyboardInterrupt:
\* 1, or 130 where it ends itself with SIGINT
InterruptStatuses == { 1, 130 }

\* check_file, line 213, and main, line 299, catch Exception only: a
\* KeyboardInterrupt leaves check_all_files and main before line 131 and
\* ends the interpreter
KeyboardInterruptQuality ==
    /\ prog = "quality" /\ pc \in { "main", "check_all_files", "file_loop" }
    /\ pc' = "interrupted"
    /\ exit_code' \in InterruptStatuses
    /\ UNCHANGED << prog, report, fs, vvars, qvars, probe >>

NextQuality ==
    \/ ConstructChecker
    \/ FindWavFiles
    \/ CheckNextFile
    \/ WriteQualityReport
    \/ KeyboardInterruptQuality

SpecQuality == InitQuality /\ [][NextQuality]_vars

(***************************************************************************)
(* The quality checker run a second time over the clips of the first run.  *)
(***************************************************************************)
\* the runs of the quality checker over one clip set
MaxRuns == 2

\* the run over the same tree with the results and the counts of the run
\* before left in place
CheckAllFilesAgainKeepingResults ==
    /\ prog = "quality" /\ pc = "exited"
    /\ report # <<>> /\ Len(report) < MaxRuns
    /\ pc' = "file_loop"
    /\ exit_code' = -1
    /\ wav_files' = SortedClips(fs[1].clips)
    /\ i' = 0
    /\ UNCHANGED << results, issues_count >>
    /\ UNCHANGED << prog, report, fs, args, model, letter, stats,
                    letter_stats, validation_results, working, probe >>

\* the run over the same tree: check_all_files starts from results = []
\* and issues_count = defaultdict(int), lines 94-95, and sorts the same
\* paths, line 98
CheckAllFilesAgain ==
    /\ prog = "quality" /\ pc = "exited"
    /\ report # <<>> /\ Len(report) < MaxRuns
    /\ pc' = "file_loop"
    /\ exit_code' = -1
    /\ wav_files' = SortedClips(fs[1].clips)
    /\ i' = 0
    /\ results' = <<>>
    /\ issues_count' = <<>>
    /\ UNCHANGED << prog, report, fs, args, model, letter, stats,
                    letter_stats, validation_results, working, probe >>

NextQualityTwice ==
    \/ NextQuality
    \/ CheckAllFilesAgain

SpecQualityTwice == InitQuality /\ [][NextQualityTwice]_vars

(***************************************************************************)
(* check_file on its own, on every signal.                                 *)
(***************************************************************************)
InitClip ==
    /\ ProbeIdle
    /\ \E s \in Signals, raises \in BOOLEAN :
         probe = [ fn |-> "check_file",
                   clip |-> [ path |-> << "A", <<"x","_","a">> >>,
                              decode_raises |-> raises, signal |-> s ],
                   done |-> FALSE, ret |-> <<>> ]

CallCheckFile ==
    /\ prog = "probe" /\ pc = "call"
    /\ probe.fn = "check_file"
    /\ probe' = [ probe EXCEPT !.done = TRUE,
                               !.ret = check_file(probe.clip) ]
    /\ pc' = "returned"
    /\ UNCHANGED << prog, exit_code, report, fs, vvars, qvars >>

SpecClip == InitClip /\ [][CallCheckFile]_vars

(***************************************************************************)
(* _generate_summary on its own, on result lists in every order.           *)
(***************************************************************************)
\* the longest result list summarized
MaxResults == 3

\* the results summarized: clips that differ in their duration
SummaryResults ==
    { check_file([ path |-> << "A", <<"x","_","a">> >>,
                   decode_raises |-> FALSE, signal |-> s ])[1] :
        s \in { t \in Signals : t.rms = 50 /\ t.peak = 500
                                   /\ t.silence_ratio = 20 } }

\* issues_count after the loop of check_all_files over the results
RECURSIVE CountAll(_)
CountAll(rs) ==
    IF rs = <<>> THEN <<>>
    ELSE CountIssues(CountAll(SubSeq(rs, 1, Len(rs) - 1)),
                     rs[Len(rs)].issues)

InitSummary ==
    /\ ProbeIdle
    /\ \E rs \in SeqsUpTo(SummaryResults, MaxResults) :
         probe = [ fn |-> "generate_summary", results |-> rs,
                   issues_count |-> CountAll(rs),
                   done |-> FALSE, ret |-> <<>> ]

CallGenerateSummary ==
    /\ prog = "probe" /\ pc = "call"
    /\ probe.fn = "generate_summary"
    /\ probe' = [ probe EXCEPT
                    !.done = TRUE,
                    !.ret = generate_summary(probe.results,
                                             probe.issues_count) ]
    /\ pc' = "returned"
    /\ UNCHANGED << prog, exit_code, report, fs, vvars, qvars >>

SpecSummary == InitSummary /\ [][CallGenerateSummary]_vars

(***************************************************************************)
(* Either command line.                                                    *)
(***************************************************************************)
Init == InitValidator \/ InitQuality

Next == NextValidator \/ NextQuality

Spec == Init /\ [][Next]_vars

(***************************************************************************)
(* The claims.                                                             *)
(***************************************************************************)
Exited == pc = "exited"

\* the tree was read and the root directory exists
RootExists == fs # <<>> /\ fs[1].exists

\* the tree was read and the root directory is missing
RootMissing == fs # <<>> /\ ~fs[1].exists

\* C1: a validator run that loaded the model, found the output directory
\* and went through its batch exits with 0 when failed_files is 0 and with
\* 1 when failed_files is above 0.
C1_ValidatorExitCode ==
    ( /\ prog = "validator" /\ Exited
      /\ model = "loaded" /\ RootExists
      /\ report # <<>> )
    => /\ stats.failed_files = 0 => exit_code = 0
       /\ stats.failed_files > 0 => exit_code = 1

\* C2: a quality checker run that found at least one clip exits with 1
\* exactly when an analyzed clip has a non-empty issues list, and with 0
\* otherwise.
C2_QualityExitCode ==
    ( /\ prog = "quality" /\ Exited
      /\ RootExists /\ fs[1].clips # {} )
    => /\ exit_code \in { 0, 1 }
       /\ exit_code = 1
            <=> \E k \in 1..Len(results) : results[k].issues # <<>>

\* a run over a clean clip and a clipped one exits with 1
C2_Witness ==
    /\ prog = "quality" /\ Exited
    /\ Len(results) = 2
    /\ results[1].issues = <<>>
    /\ results[2].issues = << "clipping", "too_short" >>
    /\ exit_code = 1

\* C3: in both programs a fatal startup error (libraries or model
\* unavailable, root directory missing) ends the process with 1.
C3_FatalStartupExitsOne ==
    Exited =>
      /\ (prog = "quality" /\ (~working \/ RootMissing)) => exit_code = 1
      /\ (prog = "validator" /\ (model = "failed" \/ RootMissing))
            => exit_code = 1

\* the run met a fatal condition: no backend, no root, or no clip found
FatalCondition ==
    \/ prog = "quality"
         /\ (~working \/ RootMissing \/ (RootExists /\ fs[1].clips = {}))
    \/ prog = "validator"
         /\ \/ model = "failed"
            \/ RootMissing
            \/ RootExists /\ \A l \in DOMAIN fs[1].dirs : fs[1].dirs[l] = <<>>

\* C4: in both programs a run that met a fatal condition has analyzed no
\* file and has written no report when it ends.
C4_FatalAbortsWithoutReport ==
    (Exited /\ FatalCondition)
    => /\ report = <<>>
       /\ results = <<>>
       /\ validation_results = <<>>

\* C5: the quality_score of an analyzed clip is
\* clamp(100 - 15 * len(issues) - 10 * |duration - 1.0|, 0, 100), and so
\* lies between 0 and 100.
C5_QualityScoreFormula ==
    (probe.fn = "check_file" /\ probe.done /\ probe.ret # <<>>)
    => LET r == probe.ret[1]
           raw == 100 * Thousandths - 15 * Thousandths * Len(r.issues)
                    - 10 * Abs(r.duration_sec - Thousandths)
       IN  /\ r.quality_score = Clamp(0, 100 * Thousandths, raw)
           /\ r.quality_score >= 0
           /\ r.quality_score <= 100 * Thousandths

\* a 12 s clip: 100 - 15 - 110 is below 0 and the score is 0
C5_Witness ==
    /\ probe.fn = "check_file" /\ probe.done /\ probe.ret # <<>>
    /\ probe.ret[1].duration_sec = 12000
    /\ probe.ret[1].issues = << "too_long" >>
    /\ probe.ret[1].quality_score = 0

FileDone == probe.fn = "validate_file" /\ probe.done

\* p lies in s at some position
IsSubstring(p, s) ==
    \E k \in 0..(Len(s) - Len(p)) : \A j \in 1..Len(p) : s[k + j] = p[j]

\* C6: in every ValidationResult of validate_file, is_match implies a
\* validation_score of 100, and no match implies a validation_score of
\* confidence * 100, with the confidence of the same record.
C6_ScoreFollowsMatch ==
    FileDone =>
      LET r == probe.ret.result
      IN  /\ r.is_match => r.validation_score = 100 * Thousandths
          /\ ~r.is_match => r.validation_score = r.confidence * 100

\* a mismatch with confidence 0.8 and so a score of 80
C6_Witness ==
    /\ FileDone
    /\ probe.ret.result.error_type = "pronunciation_mismatch"
    /\ probe.ret.result.confidence = 800
    /\ probe.ret.result.validation_score = 80 * Thousandths

\* C7: validate_file calls extract_letter, then transcribe, then the match
\* check, and stops after the first on INVALID_FILENAME and after the
\* second on TRANSCRIPTION_FAILED; error_type is one of the four tags, none
\* exactly when is_match; INVALID_FILENAME never transcribes, and records
\* the letter UNKNOWN and the score 0.
C7_StateMachine ==
    FileDone =>
      LET r == probe.ret.result
          calls == probe.ret.calls
      IN  /\ r.error_type \in { "invalid_filename", "transcription_failed",
                                "pronunciation_mismatch", None }
          /\ r.error_type = "invalid_filename"
               <=> calls = << "extract_letter_from_filename" >>
          /\ r.error_type = "transcription_failed"
               <=> calls = << "extract_letter_from_filename",
                              "transcribe_audio" >>
          /\ r.error_type \in { "pronunciation_mismatch", None }
               <=> calls = << "extract_letter_from_filename",
                              "transcribe_audio",
                              "matches_expected_letter" >>
          /\ r.error_type = None <=> r.is_match
          /\ r.error_type = "invalid_filename"
               => /\ r.expected_letter = "UNKNOWN"
                  /\ r.validation_score = 0
                  /\ \A k \in 1..Len(calls) : calls[k] # "transcribe_audio"

\* foo_bar.wav ends in INVALID_FILENAME
C7_Witness ==
    /\ FileDone
    /\ probe.file.stem = <<"f","o","o","_","b","a","r">>
    /\ ~probe.file.asr.raises
    /\ probe.ret.result.error_type = "invalid_filename"

\* C8: a clip with a valid name whose transcription raises, or whose
\* segments hold no text, ends in TRANSCRIPTION_FAILED with is_match false,
\* confidence 0 and score 0, and validate_file returns that record.
C8_TranscriptionFailed ==
    ( /\ FileDone
      /\ extract_letter_from_filename(probe.file.stem) # None
      /\ \/ probe.file.asr.raises
         \/ \A k \in 1..Len(probe.file.asr.segments) :
               \A j \in 1..Len(probe.file.asr.segments[k].text) :
                  probe.file.asr.segments[k].text[j] \in Whitespace )
    => LET r == probe.ret.result
       IN  /\ r.error_type = "transcription_failed"
           /\ ~r.is_match
           /\ r.confidence = 0
           /\ r.validation_score = 0
           /\ r.transcribed_text = <<>>

\* the transcription of x_a.wav raises
C8_Witness ==
    /\ FileDone
    /\ probe.file.stem = <<"x","_","a">>
    /\ probe.file.asr.raises
    /\ probe.ret.result.error_type = "transcription_failed"

\* C9: for a non-empty transcript, matches_expected_letter is true exactly
\* when an accepted variant of the letter lies in the normalized transcript,
\* or the normalized transcript lies in an accepted variant, or the
\* normalized transcript is the letter itself.
C9_BidirectionalContainment ==
    ( /\ probe.fn = "matches_expected_letter"
      /\ probe.done
      /\ probe.transcribed # <<>> )
    => LET T == Normalize(probe.transcribed)
           variants == Range(letter_patterns[probe.expected_letter])
           contained ==
               \E v \in variants : IsSubstring(v, T) \/ IsSubstring(T, v)
           single == T = << LowerChar(probe.expected_letter) >>
       IN  /\ probe.ret <=> (contained \/ single)
           /\ T \in variants => probe.ret

\* "Bee" for B: the normalized transcript is the variant bee
C9_Witness ==
    /\ probe.fn = "matches_expected_letter"
    /\ probe.done
    /\ probe.transcribed = <<"B","e","e">>
    /\ probe.expected_letter = "B"
    /\ probe.ret

\* the stem ends with an underscore and one lower-case letter
EndsWithLowerLetter(s) ==
    /\ Len(s) >= 2
    /\ s[Len(s) - 1] = "_"
    /\ IsLower(s[Len(s)])

\* s without the one newline that may end it
DropFinalNewline(s) ==
    IF s # <<>> /\ s[Len(s)] = "\n" THEN SubSeq(s, 1, Len(s) - 1) ELSE s

\* C10 as stated: a letter comes back exactly for the stems that end with
\* an underscore and one lower-case letter, and every other stem ends in
\* INVALID_FILENAME.
C10_LowerCaseOnly ==
    FileDone =>
      LET s == probe.file.stem
          r == probe.ret.result
      IN  /\ r.expected_letter # "UNKNOWN" <=> EndsWithLowerLetter(s)
          /\ EndsWithLowerLetter(s)
               => r.expected_letter = UpperChar(s[Len(s)])
          /\ ~EndsWithLowerLetter(s) => r.error_type = "invalid_filename"

\* C10 amended: a letter comes back exactly for the stems that, lower-cased
\* and without a final newline, end with an underscore and one letter a-z;
\* it is that letter in upper case; every other stem ends in
\* INVALID_FILENAME without a transcription.
C10_CaseInsensitive ==
    FileDone =>
      LET s == DropFinalNewline(Lower(probe.file.stem))
          r == probe.ret.result
      IN  /\ r.expected_letter # "UNKNOWN" <=> EndsWithLowerLetter(s)
          /\ EndsWithLowerLetter(s)
               => r.expected_letter = UpperChar(s[Len(s)])
          /\ ~EndsWithLowerLetter(s)
               => /\ r.error_type = "invalid_filename"
                  /\ probe.ret.calls = << "extract_letter_from_filename" >>

\* x_B yields the letter B
C10_Witness ==
    /\ FileDone
    /\ probe.file.stem = <<"x","_","B">>
    /\ probe.ret.result.expected_letter = "B"

\* C11: in both programs a run that has its backend and an existing root
\* directory (with at least one clip under it, for the quality checker)
\* goes through its whole batch and has written a report when it ends,
\* whatever the directories hold and whatever the options are; no exception
\* ends it before.
C11_BatchAlwaysCompletes ==
    /\ ( /\ prog = "validator" /\ Exited
         /\ model = "loaded" /\ RootExists )
       => /\ report # <<>>
          /\ NextLetterDir(letter) > 26
    /\ ( /\ prog = "quality" /\ Exited
         /\ working /\ RootExists /\ fs[1].clips # {} )
       => /\ report # <<>>
          /\ i = Len(wav_files)

\* the clips under the root that the decoder reads
Decodable == { c \in fs[1].clips : ~c.decode_raises }

\* the number of entries of a result list that carry the tag
TagCount(rs, tag) ==
    Cardinality({ k \in 1..Len(rs) : tag \in Range(rs[k].issues) })

\* C12: in the quality checker's report the clips whose decoding raised
\* are nowhere: all_results holds exactly one entry for each clip that was
\* decoded (so every other clip of the batch was analyzed), total_files of
\* the summary is their number, and issues_by_type counts their tags only.
C12_NullResultExcluded ==
    (prog = "quality" /\ Exited /\ report # <<>>) =>
      LET rep == report[1]
          rs == rep.all_results
      IN  /\ { rs[k].file_path : k \in 1..Len(rs) }
                = { c.path : c \in Decodable }
          /\ Len(rs) = Cardinality(Decodable)
          /\ rep.summary = <<>> <=> Decodable = {}
          /\ rep.summary # <<>>
                => rep.summary[1].total_files = Cardinality(Decodable)
          /\ DOMAIN rep.issues_by_type
                = UNION { Range(rs[k].issues) : k \in 1..Len(rs) }
          /\ \A tag \in DOMAIN rep.issues_by_type :
                rep.issues_by_type[tag] = TagCount(rs, tag)

\* a batch whose first clip fails to decode and whose second clip is
\* analyzed and reported
C12_Witness ==
    /\ prog = "quality" /\ Exited /\ report # <<>>
    /\ Len(wav_files) = 2
    /\ wav_files[1].decode_raises
    /\ ~wav_files[2].decode_raises
    /\ Len(report[1].all_results) = 1
    /\ report[1].all_results[1].file_path = wav_files[2].path
    /\ report[1].summary[1].total_files = 1

\* the reason tags of the validator's recoverable failures
FailureTags ==
    { "invalid_filename", "transcription_failed", "pronunciation_mismatch" }

\* the entries of a result list that are not matches and lie in a directory
FailedIn(rs, l) ==
    { k \in 1..Len(rs) : ~rs[k].is_match /\ rs[k].file_path[1] = l }

\* C13: in a validator run every clip taken from a letter directory has its
\* record in the result list; a record that is not a match carries one of
\* the three failure tags and is counted in validated_files, in
\* failed_files and in the failed count of its letter directory, and the
\* report lists it in all_validations and in failed_validations.
C13_FailuresRecorded ==
    prog = "validator" =>
      LET rs == validation_results
          n == Len(rs)
      IN  /\ stats.validated_files = n
          /\ stats.failed_files = Len(SelectSeq(rs, NotMatch))
          /\ \A k \in 1..n :
               IF rs[k].is_match THEN rs[k].error_type = None
               ELSE rs[k].error_type \in FailureTags
          /\ \A l \in DOMAIN letter_stats :
               letter_stats[l].failed = Cardinality(FailedIn(rs, l))
          /\ pc = "file_loop" =>
               /\ n >= i
               /\ \A k \in 1..i :
                    rs[n - i + k].file_path
                       = << UpperCase[letter], wav_files[k] >>
          /\ report # <<>> =>
               /\ report[1].all_validations = rs
               /\ report[1].failed_validations = SelectSeq(rs, NotMatch)
               /\ report[1].summary.validated_files = n
               /\ report[1].summary.failed_files
                     = Len(report[1].failed_validations)

\* a run whose report holds an invalid filename, a failed transcription and
\* a mismatch, all three counted as failures
C13_Witness ==
    /\ prog = "validator" /\ Exited /\ report # <<>>
    /\ { report[1].failed_validations[k].error_type :
           k \in 1..Len(report[1].failed_validations) } = FailureTags
    /\ report[1].summary.failed_files = 3
    /\ report[1].summary.validated_files = 3

IsMatch(r) == r.is_match

\* C14: in a report of one validator instance, written after any number of
\* validate_directory calls, validated_files of the summary is the number
\* of entries of all_validations, failed_files the number of entries of
\* failed_validations, and matched_files the number of entries of
\* all_validations with is_match true.
C14_SummaryFromResults ==
    (prog = "validator" /\ report # <<>>) =>
      LET rep == report[1]
      IN  /\ rep.summary.validated_files = Len(rep.all_validations)
          /\ rep.summary.failed_files = Len(rep.failed_validations)
          /\ rep.summary.matched_files
                = Len(SelectSeq(rep.all_validations, IsMatch))

\* the call of check_file has returned a result
ClipDone == probe.fn = "check_file" /\ probe.done /\ probe.ret # <<>>

\* the result of check_file on the clip of the call with another signal
ResultOn(s) ==
    check_file([ probe.clip EXCEPT !.signal = s, !.decode_raises = FALSE ])[1]

\* |duration - 1.0| of a signal, in thousandths
Deviation(s) == Abs(s.duration - Thousandths)

\* C15: of two analyzed clips a and b, when a has no more issue tags than b
\* and its duration is no farther from 1.0 second than b's, a's
\* quality_score is no lower than b's.
C15_ScoreMonotone ==
    ClipDone =>
      \A s \in Signals :
        ( /\ Len(probe.ret[1].issues) <= Len(ResultOn(s).issues)
          /\ Deviation(probe.clip.signal) <= Deviation(s) )
        => probe.ret[1].quality_score >= ResultOn(s).quality_score

\* a clip with one issue, 0.7 second from the ideal, scored strictly above
\* a clip with more issues and a longer deviation, itself scored above 0
C15_Witness ==
    /\ ClipDone
    /\ Len(probe.ret[1].issues) = 1
    /\ Deviation(probe.clip.signal) = 700
    /\ \E s \in Signals :
         /\ Len(ResultOn(s).issues) > 1
         /\ Deviation(s) > 700
         /\ ResultOn(s).quality_score > 0
         /\ ResultOn(s).quality_score < probe.ret[1].quality_score

C17_SummaryRepeats ==
    prog = "quality" =>
      \A j, k \in 1..Len(report) :
        /\ report[j].summary = report[k].summary
        /\ report[j].issues_by_type = report[k].issues_by_type

\* two runs over a clean clip and a clipped, short one, each reporting two
\* files and the two tags
C17_Witness ==
    /\ prog = "quality" /\ Exited /\ Len(report) = 2
    /\ report[2].summary # <<>>
    /\ report[2].summary[1].total_files = 2
    /\ report[2].summary[1].files_with_issues = 1
    /\ DOMAIN report[2].issues_by_type = { "clipping", "too_short" }

\* the call of _generate_summary has returned a summary
SummaryDone == probe.fn = "generate_summary" /\ probe.done /\ probe.ret # <<>>

\* the orders in which n results may come
Orders(n) == { p \in [ 1..n -> 1..n ] : IsInjective(p) }

\* C18: duration.median of the summary is the same for every order of the
\* result list, and is the element at index len // 2 of the durations in
\* increasing order: at most len // 2 durations lie below it and at least
\* len // 2 + 1 are no larger.
C18_MedianOrderIndependent ==
    SummaryDone =>
      LET rs == probe.results
          n == Len(rs)
          median == probe.ret[1].duration.median
      IN  /\ \A p \in Orders(n) :
               generate_summary([ k \in 1..n |-> rs[p[k]] ],
                                probe.issues_count)[1].duration.median
                  = median
          /\ Cardinality({ k \in 1..n : rs[k].duration_sec < median })
                <= n \div 2
          /\ Cardinality({ k \in 1..n : rs[k].duration_sec <= median })
                >= n \div 2 + 1

\* three results of 3.0, 0.2 and 1.0 seconds in that order: the median is
\* 1.0, not the duration of the middle result
C18_Witness ==
    /\ SummaryDone
    /\ Len(probe.results) = 3
    /\ probe.results[1].duration_sec = 3000
    /\ probe.results[2].duration_sec = 200
    /\ probe.results[3].duration_sec = 1000
    /\ probe.ret[1].duration.median = 1000

\* p <= q for two paths
PathLeq(p, q) == p = q \/ PathLess(p, q)

\* the entries of a result list stand in increasing path order
InPathOrder(rs) ==
    \A j, k \in 1..Len(rs) :
      j < k => PathLeq(rs[j].file_path, rs[k].file_path)

\* C19: in both programs the result list is in lexicographic path order at
\* every moment, in whatever order the file system lists a directory.
C19_ResultsInPathOrder ==
    /\ prog = "quality" => InPathOrder(results)
    /\ prog = "validator" => InPathOrder(validation_results)

\* the run was ended by a keyboard interrupt
Interrupted == pc = "interrupted"

\* no clip of the batch is left to analyze
BatchOver ==
    /\ i = Len(wav_files)
    /\ prog = "validator" => NextLetterDir(letter) > 26

\* the run went through the loop over its clips and ended of itself
BatchCompleted ==
    \/ /\ prog = "quality" /\ Exited
       /\ working /\ RootExists /\ fs[1].clips # {}
    \/ /\ prog = "validator" /\ Exited
       /\ model = "loaded" /\ RootExists /\ exit_code = 0

\* C20: a run writes at most one report, and writes it only when no file of
\* the batch is left to analyze; a run that went through its batch has
\* written one, and a run ended by a keyboard interrupt has written none.
C20_ReportOnceAtEnd ==
    prog \in { "validator", "quality" } =>
      /\ Len(report) <= 1
      /\ report # <<>> => (Exited /\ BatchOver)
      /\ BatchCompleted => Len(report) = 1
      /\ Interrupted => report = <<>>

\* a validator run interrupted in a letter directory after its first clip,
\* with a clip left: the record is made and no report is written
C20_Witness ==
    /\ prog = "validator" /\ Interrupted
    /\ Len(validation_results) = 1
    /\ i = 1 /\ Len(wav_files) = 2
    /\ report = <<>>

\* the place of a tag in [clipping, too_quiet, too_short or too_long,
\* mostly_silent]
TagRank(tag) ==
    CASE tag = "clipping" -> 1
      [] tag = "too_quiet" -> 2
      [] tag = "too_short" -> 3
      [] tag = "too_long" -> 3
      [] tag = "mostly_silent" -> 4
      [] OTHER -> 0

MatchDone == probe.fn = "matches_expected_letter" /\ probe.done

\* C22: the normalized transcript that matches_expected_letter compares
\* with the variants holds lower-case letters, digits and whitespace only;
\* every other character of the raw transcript, the underscore included,
\* is gone from it.
C22_NormalizedAlphabet ==
    MatchDone =>
      \A c \in Range(Normalize(probe.transcribed)) :
        IsLower(c) \/ c \in Digits \/ IsSpaceChar(c)

\* C23: letter_breakdown of the validator's report has an entry only for a
\* letter whose directory exists and holds at least one clip.
C23_BreakdownOnlyWithClips ==
    (prog = "validator" /\ report # <<>>) =>
      \A l \in DOMAIN report[1].letter_breakdown :
        /\ l \in DOMAIN fs[1].dirs
        /\ fs[1].dirs[l] # <<>>

\* frames / rate of a header in thousandths of a second, rounded; 0 when
\* the header cannot be read
HeaderDuration(h) ==
    IF h.raises THEN 0
    ELSE (2 * 1000 * h.frames + h.rate) \div (2 * h.rate)

\* the name of the file of the call gives a letter
ValidName == extract_letter_from_filename(probe.file.stem) # None

\* C24: for a file with a valid name the recorded audio_duration_seconds is
\* the duration read from the header, 0.0 when the header cannot be read,
\* whatever the transcription does (text, empty transcript, exception); and
\* the terminal state of the file is the same for every header, readable
\* or not.
C24_DurationDecoupled ==
    (FileDone /\ ValidName) =>
      LET r == probe.ret.result
      IN  /\ r.audio_duration_seconds = HeaderDuration(probe.file.header)
          /\ \A a \in StemAsr :
               validate_file([ probe.file EXCEPT !.asr = a ])
                   .result.audio_duration_seconds
                 = r.audio_duration_seconds
          /\ \A h \in Headers :
               LET q == validate_file([ probe.file EXCEPT !.header = h ]).result
               IN  /\ q.is_match = r.is_match
                   /\ q.error_type = r.error_type

\* a clip of half a second whose transcription raises: the record is
\* transcription_failed and carries the 0.5 second of the header
C24_Witness ==
    /\ FileDone /\ ValidName
    /\ probe.file.asr.raises
    /\ ~probe.file.header.raises
    /\ probe.file.header.frames = 11025
    /\ probe.ret.result.error_type = "transcription_failed"
    /\ probe.ret.result.audio_duration_seconds = 500

\* the sum of one counter over the letters of the per-letter statistics
RECURSIVE LetterSum(_, _)
LetterSum(letters, field) ==
    IF letters = {} THEN 0
    ELSE LET l == CHOOSE x \in letters : TRUE
         IN  letter_stats[l][field] + LetterSum(letters \ { l }, field)

\* C25: at every point of a validator run matched_files + failed_files is
\* validated_files; for every letter matched + failed = validated <= total;
\* the three global counters are the sums of the per-letter ones; and
\* validated_files <= total_files.
C25_CounterConservation ==
    prog = "validator" =>
      /\ stats.matched_files + stats.failed_files = stats.validated_files
      /\ \A l \in DOMAIN letter_stats :
           /\ letter_stats[l].matched + letter_stats[l].failed
                 = letter_stats[l].validated
           /\ letter_stats[l].validated <= letter_stats[l].total
      /\ stats.validated_files = LetterSum(DOMAIN letter_stats, "validated")
      /\ stats.matched_files = LetterSum(DOMAIN letter_stats, "matched")
      /\ stats.failed_files = LetterSum(DOMAIN letter_stats, "failed")
      /\ stats.validated_files <= stats.total_files

\* a run in its second letter directory, two clips in each and one taken
\* from each: a match counted in the first and a failure in the second
C25_Witness ==
    /\ prog = "validator" /\ pc = "file_loop"
    /\ DOMAIN letter_stats = { "A", "B" }
    /\ letter_stats["A"].total = 1 /\ letter_stats["A"].matched = 1
    /\ letter_stats["B"].total = 1 /\ letter_stats["B"].failed = 1
    /\ stats.validated_files = 2
    /\ stats.matched_files = 1 /\ stats.failed_files = 1
    /\ stats.total_files = 4

\* the sum of the counts of a histogram over some of its tags
RECURSIVE SumCounts(_, _)
SumCounts(counts, tags) ==
    IF tags = {} THEN 0
    ELSE LET tag == CHOOSE x \in tags : TRUE
         IN  counts[tag] + SumCounts(counts, tags \ { tag })

\* C26: in a quality report with a non-empty result list, clean_files +
\* files_with_issues = total_files = len(all_results); issues_found is true
\* exactly when files_with_issues > 0; every count of issues_by_type lies
\* between 1 and total_files; and the counts add up to the number of issue
\* tags of all results.
C26_SummaryConsistency ==
    (prog = "quality" /\ report # <<>> /\ report[1].all_results # <<>>) =>
      LET rep == report[1]
          rs == rep.all_results
          summary == rep.summary[1]
          counts == rep.issues_by_type
      IN  /\ rep.summary # <<>>
          /\ summary.clean_files + summary.files_with_issues
                = summary.total_files
          /\ summary.total_files = Len(rs)
          /\ summary.issues_found <=> summary.files_with_issues > 0
          /\ \A tag \in DOMAIN counts :
               counts[tag] >= 1 /\ counts[tag] <= summary.total_files
          /\ SumCounts(counts, DOMAIN counts)
                = Sum([ k \in 1..Len(rs) |-> Len(rs[k].issues) ])

\* a report over two clipped, short clips: no clean file, each of the two
\* tags counted twice
C26_Witness ==
    /\ prog = "quality" /\ Exited /\ report # <<>>
    /\ report[1].summary # <<>>
    /\ report[1].summary[1].total_files = 2
    /\ report[1].summary[1].clean_files = 0
    /\ report[1].summary[1].issues_found
    /\ DOMAIN report[1].issues_by_type = { "clipping", "too_short" }
    /\ report[1].issues_by_type["clipping"] = 2
    /\ report[1].issues_by_type["too_short"] = 2

\* a letter or a digit
IsAlnum(c) == IsLower(c) \/ IsUpper(c) \/ c \in Digits

\* C27: a file whose transcript holds no letter and no digit does not end
\* in MATCH, whatever the letter expected.
C27_PunctuationNeverMatches ==
    ( /\ FileDone
      /\ \A c \in Range(probe.ret.result.transcribed_text) : ~IsAlnum(c) )
    => ~probe.ret.result.is_match

\* C28: every record counted in the per-letter statistics of a letter, the
\* directory its file lies in, was validated against that letter: its
\* expected_letter is the letter of the directory (records of files whose
\* name gives no letter set aside).
C28_CountedUnderExpectedLetter ==
    prog = "validator" =>
      \A k \in 1..Len(validation_results) :
        validation_results[k].error_type # "invalid_filename"
          => validation_results[k].expected_letter
                = validation_results[k].file_path[1]

\* the clips found in the letter directory of the loop, before sampling
FoundInLetter == fs[1].dirs[UpperCase[letter]]

\* C29: in a validator run, when max_files is given as m (0 included), at
\* most m files are taken in a letter directory; and when sample_rate is
\* below 1.0, the max(1, floor(n * sample_rate)) files sampled among the n
\* of a letter directory are never more than n.
C29_SamplingBounds ==
    ( /\ prog = "validator" /\ letter \in 1..26 /\ RootExists
      /\ UpperCase[letter] \in DOMAIN fs[1].dirs ) =>
      /\ (pc = "file_loop" /\ args.max_files # <<>>)
            => Len(wav_files) <= args.max_files[1]
      /\ args.sample_rate < 1000
            => Max(1, (Len(FoundInLetter) * args.sample_rate) \div 1000)
                  <= Len(FoundInLetter)

\* C30: for an analyzed clip is_clipping, is_too_quiet and has_silence are
\* true exactly when the issues hold clipping, too_quiet and mostly_silent;
\* the issues are at most 4; and a clip without issues has a quality_score
\* of 80 or more.
C30_FlagsAgreeWithTags ==
    ClipDone =>
      LET r == probe.ret[1]
          tags == Range(r.issues)
      IN  /\ r.is_clipping <=> "clipping" \in tags
          /\ r.is_too_quiet <=> "too_quiet" \in tags
          /\ r.has_silence <=> "mostly_silent" \in tags
          /\ Len(r.issues) <= 4
          /\ r.issues = <<>> => r.quality_score >= 80 * 1000

\* a clip of 3.0 seconds without issues, scored 80 exactly
C30_Witness ==
    /\ ClipDone
    /\ probe.clip.signal.duration = 3000
    /\ probe.ret[1].issues = <<>>
    /\ ~probe.ret[1].is_clipping
    /\ ~probe.ret[1].is_too_quiet
    /\ ~probe.ret[1].has_silence
    /\ probe.ret[1].quality_score = 80000

=============================================================================
